---------------------------- MODULE Spec2Model ----------------------------
(***************************************************************************)
(* Word-of-the-day bot (src/main.py): the subscriber registry, the content *)
(* store, the word generator with its text parsing, the unique word        *)
(* resolver, the scheduled broadcast and the three command handlers.       *)
(*                                                                         *)
(* Text is a sequence of tokens: a token is a label ("Word: "), the blank  *)
(* line separator, a space or a letter.  None is Python's None.            *)
(***************************************************************************)
EXTENDS Integers, Sequences, FiniteSets, TLC

\* ------------------------------------------------------------------ bounds
NumIds == 2
MaxTextLen == 6

\* --------------------------------------------------------- program constants
MaxAttempts == 5

ChatIds == 1..NumIds
Procs == {"scheduler", "bot"}

None == <<"None">>
BlankLine == "\n\n"
Whitespace == {" ", BlankLine}

\* ------------------------------------------------------------ str methods
LowerChar(t) ==
    CASE t = "A" -> "a"
      [] t = "B" -> "b"
      [] t = "Word: " -> "word: "
      [] t = "Meaning: " -> "meaning: "
      [] t = "Example: " -> "example: "
      [] OTHER -> t

\* SQL LOWER(text)
Lower(s) == [i \in DOMAIN s |-> LowerChar(s[i])]

RECURSIVE LStrip(_)
LStrip(s) == IF s # <<>> /\ Head(s) \in Whitespace THEN LStrip(Tail(s)) ELSE s

RECURSIVE RStrip(_)
RStrip(s) ==
    IF s # <<>> /\ s[Len(s)] \in Whitespace
    THEN RStrip(SubSeq(s, 1, Len(s) - 1))
    ELSE s

\* str.strip()
Strip(s) == RStrip(LStrip(s))

\* str.replace(label, ""): every occurrence of the label is removed
Replace(s, label) == SelectSeq(s, LAMBDA t : t # label)

\* str.split("\n\n"): the parts between the separators, empty parts kept
RECURSIVE Split(_)
Split(s) ==
    IF \A i \in DOMAIN s : s[i] # BlankLine
    THEN <<s>>
    ELSE LET k == CHOOSE i \in DOMAIN s :
                      /\ s[i] = BlankLine
                      /\ \A j \in 1..(i - 1) : s[j] # BlankLine
         IN  <<SubSeq(s, 1, k - 1)>> \o Split(SubSeq(s, k + 1, Len(s)))

\* `if word is None` in place of `if not word`
Falsy_none(w) == w = None

\* Python truthiness of a str-or-None: `not word`
Falsy(w) == w = None \/ w = <<>>

Triple(w, m, e) == [word |-> w, meaning |-> m, example |-> e]
NoneTriple == Triple(None, None, None)

\* ------------------------------------------------------ generation service
\* What one requests.post can give: the call raises (service unreachable), a
\* non-200 status, a 200 whose body is not the expected JSON, or a 200 with
\* the generated text.
Body(w, m, e) ==
    <<"Word: ">> \o w \o <<BlankLine, "Meaning: ">> \o m
                 \o <<BlankLine, "Example: ">> \o e

Texts ==
    { Body(<<"a">>, <<"m">>, <<"e">>),
      Body(<<"a", "b">>, <<"n">>, <<"e">>),
      Body(<<"A", "b">>, <<"m">>, <<"e">>),
      <<" ">> \o Body(<<"a", " ">>, <<"m">>, <<"e", " ">>) \o <<BlankLine>>,
      Body(<<>>, <<"m">>, <<"e">>),
      <<"Word: ", "a", "b", BlankLine, "Meaning: ", "m">>,
      <<"Word: ", "a", "b">>,
      <<>>,
      Body(<<"a", "b">>, <<"n">>, <<"e">>) \o <<BlankLine, "x">> }

Responses ==
    { [kind |-> "unreachable", status |-> 0, text |-> <<>>],
      [kind |-> "http", status |-> 500, text |-> <<>>],
      [kind |-> "badjson", status |-> 200, text |-> <<>>] }
    \cup { [kind |-> "http", status |-> 200, text |-> t] : t \in Texts }

\* a try block per field: a missing part leaves only its own field None
ParseContent_partial(content) ==
    LET parts == Split(content)
    IN  Triple(IF Len(parts) < 1 THEN None
               ELSE Strip(Replace(parts[1], "Word: ")),
               IF Len(parts) < 2 THEN None
               ELSE Strip(Replace(parts[2], "Meaning: ")),
               IF Len(parts) < 3 THEN None
               ELSE Strip(Replace(parts[3], "Example: ")))

\* the try block of generate_word: IndexError on a missing part is caught
ParseContent(content) ==
    LET parts == Split(content)
    IN  IF Len(parts) < 3
        THEN NoneTriple
        ELSE Triple(Strip(Replace(parts[1], "Word: ")),
                    Strip(Replace(parts[2], "Meaning: ")),
                    Strip(Replace(parts[3], "Example: ")))

\* generate_word raises when requests.post raises or when response.json() /
\* the subscripting of its result raises: neither is inside the try block
generate_word_raises(resp) ==
    \/ resp.kind = "unreachable"
    \/ resp.kind = "badjson" /\ resp.status = 200

generate_word(resp) ==
    IF resp.status = 200
    THEN ParseContent(Strip(resp.text))
    ELSE NoneTriple

\* ------------------------------------------------------- subscriber registry
\* users is the table's rows in insertion order, UPDATE changes a row in place
HasUser(u, id) == \E i \in DOMAIN u : u[i].chat_id = id

\* INSERT without the ON CONFLICT clause taking effect
subscribe_user_insert(u, id) == Append(u, [chat_id |-> id, subscribed |-> TRUE])

\* ON CONFLICT (chat_id) DO NOTHING
subscribe_user_nothing(u, id) ==
    IF HasUser(u, id) THEN u
    ELSE Append(u, [chat_id |-> id, subscribed |-> TRUE])

subscribe_user(u, id) ==
    IF HasUser(u, id)
    THEN [i \in DOMAIN u |->
            IF u[i].chat_id = id THEN [u[i] EXCEPT !.subscribed = TRUE] ELSE u[i]]
    ELSE Append(u, [chat_id |-> id, subscribed |-> TRUE])

\* UPDATE users SET subscribed = TRUE
unsubscribe_user_true(u, id) ==
    [i \in DOMAIN u |->
        IF u[i].chat_id = id THEN [u[i] EXCEPT !.subscribed = TRUE] ELSE u[i]]

\* an upsert in place of the UPDATE: an unknown identity gets a record
unsubscribe_user_upsert(u, id) ==
    IF HasUser(u, id)
    THEN [i \in DOMAIN u |->
            IF u[i].chat_id = id THEN [u[i] EXCEPT !.subscribed = FALSE] ELSE u[i]]
    ELSE Append(u, [chat_id |-> id, subscribed |-> FALSE])

\* DELETE FROM users in place of the UPDATE
unsubscribe_user_delete(u, id) == SelectSeq(u, LAMBDA r : r.chat_id # id)

unsubscribe_user(u, id) ==
    [i \in DOMAIN u |->
        IF u[i].chat_id = id THEN [u[i] EXCEPT !.subscribed = FALSE] ELSE u[i]]

RECURSIVE get_subscribed_users(_)
get_subscribed_users(u) ==
    IF u = <<>> THEN <<>>
    ELSE (IF Head(u).subscribed THEN <<Head(u).chat_id>> ELSE <<>>)
         \o get_subscribed_users(Tail(u))

\* ------------------------------------------------------------ content store
\* WHERE word = %s: the comparison without LOWER
word_exists_exact(c, w) == \E i \in DOMAIN c : c[i].word = w

word_exists(c, w) == \E i \in DOMAIN c : Lower(c[i].word) = Lower(w)

\* a unique index on LOWER(word)
UniqueViolation_lower(c, w) == \E i \in DOMAIN c : Lower(c[i].word) = Lower(w)

\* the UNIQUE constraint of content.word compares the text as stored
UniqueViolation(c, w) == \E i \in DOMAIN c : c[i].word = w

\* the word is stored lower-cased
save_content_lower(c, w, m, e) == Append(c, Triple(Lower(w), m, e))

save_content(c, w, m, e) == Append(c, Triple(w, m, e))

\* ----------------------------------------------------------------- messages
daily_message(t) ==
    <<"Word of the Day", BlankLine, "Word: ">> \o t.word
      \o <<BlankLine, "Meaning: ">> \o t.meaning
      \o <<BlankLine, "Example: ">> \o t.example

new_word_message(t) ==
    <<"New Word For You", BlankLine, "Word: ">> \o t.word
      \o <<BlankLine, "Meaning: ">> \o t.meaning
      \o <<BlankLine, "Example: ">> \o t.example

Apology == <<"Couldn't generate a new word. Try again.">>
SubscribedText == <<"Subscribed to Word of the Day!">>
UnsubscribedText == <<"Unsubscribed successfully.">>

\* -------------------------------------------------------------------- state
VARIABLES
    users,          \* table users: rows [chat_id, subscribed]
    content,        \* table content: rows [word, meaning, example]
    pc,             \* per process: the statement it is at
    op,             \* per process: the entry point it is running
    chat_id,        \* per process: update.effective_chat.id of the command
    attempt,        \* per process: iterations of range(5) started
    gen,            \* per process: word, meaning, example in the resolver
    result,         \* per process: word, meaning, example in the caller
    todo,           \* per process: the rest of `for chat_id in users`
    \* history of the run, read by the properties only
    recipients,     \* the list get_subscribed_users() returned to the run
    outbox,         \* send_message calls of the run: [to, text, ok]
    genCalls,       \* generate_word calls of the run
    resolverCalls,  \* get_new_unique_word calls of the run
    resolver,       \* "none", "running", "returned", "raised"
    dupOnly,        \* every generate_word call so far gave a stored word
    content0,       \* content when the resolver was invoked
    lastAct,        \* per identity: its latest registry operation
    everSubscribed, \* identities subscribe_user was called for
    \* generate_word on its own
    response,       \* what requests.post gave
    outcome         \* <<>> before the call, then <<[raised, value]>>

persistent == <<users, content>>
locals == <<pc, op, chat_id, attempt, gen, result, todo>>
history == <<recipients, outbox, genCalls, resolverCalls, resolver, dupOnly,
             content0, lastAct, everSubscribed>>
generator == <<response, outcome>>
vars == <<users, content, pc, op, chat_id, attempt, gen, result, todo,
          recipients, outbox, genCalls, resolverCalls, resolver, dupOnly,
          content0, lastAct, everSubscribed, response, outcome>>

\* the tables are created empty (CREATE TABLE IF NOT EXISTS on first start)
\* and no entry point has started
NothingRunning ==
    /\ users = <<>>
    /\ content = <<>>
    /\ pc = [p \in Procs |-> "idle"]
    /\ op = [p \in Procs |-> "none"]
    /\ chat_id = [p \in Procs |-> 0]
    /\ attempt = [p \in Procs |-> 0]
    /\ gen = [p \in Procs |-> NoneTriple]
    /\ result = [p \in Procs |-> NoneTriple]
    /\ todo = [p \in Procs |-> <<>>]
    /\ recipients = [p \in Procs |-> <<>>]
    /\ outbox = [p \in Procs |-> <<>>]
    /\ genCalls = [p \in Procs |-> 0]
    /\ resolverCalls = [p \in Procs |-> 0]
    /\ resolver = [p \in Procs |-> "none"]
    /\ dupOnly = [p \in Procs |-> TRUE]
    /\ content0 = [p \in Procs |-> <<>>]
    /\ lastAct = [id \in ChatIds |-> "none"]
    /\ everSubscribed = {}

NoResponse == [kind |-> "http", status |-> 0, text |-> <<>>]

Init ==
    /\ NothingRunning
    /\ response = NoResponse
    /\ outcome = <<>>

\* no entry point is running: invocations do not interleave
Quiescent == \A q \in Procs : pc[q] = "idle"

Send(p, to, text, ok) ==
    outbox' = [outbox EXCEPT ![p] = Append(@, [to |-> to, text |-> text, ok |-> ok])]

\* ---------------------------------------------------------- entry points
\* a run starts: the scheduled trigger or an inbound command event
Enter(p, o, id, at) ==
    /\ pc[p] = "idle"
    /\ pc' = [pc EXCEPT ![p] = at]
    /\ op' = [op EXCEPT ![p] = o]
    /\ chat_id' = [chat_id EXCEPT ![p] = id]
    /\ UNCHANGED <<persistent, attempt, gen, result, todo, history>>
    /\ UNCHANGED generator

send_daily_word(p) == Enter(p, "daily", 0, "resolve")

regenerate_word(p, id) == Enter(p, "iknow", id, "resolve")

subscribe(p, id) == Enter(p, "subscribe", id, "subscribe_user")

unsubscribe(p, id) == Enter(p, "unsubscribe", id, "unsubscribe_user")

\* ------------------------------------------------------ get_new_unique_word
\* word, meaning, example = get_new_unique_word() in the caller
get_new_unique_word(p) ==
    /\ pc[p] = "resolve"
    /\ pc' = [pc EXCEPT ![p] = "gen"]
    /\ attempt' = [attempt EXCEPT ![p] = 0]
    /\ resolverCalls' = [resolverCalls EXCEPT ![p] = @ + 1]
    /\ resolver' = [resolver EXCEPT ![p] = "running"]
    /\ content0' = [content0 EXCEPT ![p] = content]
    /\ genCalls' = [genCalls EXCEPT ![p] = 0]
    /\ dupOnly' = [dupOnly EXCEPT ![p] = TRUE]
    /\ UNCHANGED <<persistent, op, chat_id, gen, result, todo, recipients,
                   outbox, lastAct, everSubscribed>>
    /\ UNCHANGED generator

\* the frame of get_new_unique_word ends with its return or its exception
Leave(p) ==
    /\ attempt' = [attempt EXCEPT ![p] = 0]
    /\ gen' = [gen EXCEPT ![p] = NoneTriple]

\* a failed generation gives the attempt back
Generate_retry(p) ==
    /\ pc[p] = "gen"
    /\ attempt[p] < MaxAttempts
    /\ genCalls' = [genCalls EXCEPT ![p] = @ + 1]
    /\ \E resp \in Responses :
         IF generate_word_raises(resp)
         THEN /\ pc' = [pc EXCEPT ![p] = "raised"]
              /\ resolver' = [resolver EXCEPT ![p] = "raised"]
              /\ dupOnly' = [dupOnly EXCEPT ![p] = FALSE]
              /\ Leave(p)
         ELSE LET t == generate_word(resp)
              IN  /\ gen' = [gen EXCEPT ![p] = t]
                  /\ attempt' = [attempt EXCEPT ![p] =
                              IF Falsy(t.word) THEN @ ELSE @ + 1]
                  /\ pc' = [pc EXCEPT ![p] =
                              IF Falsy(t.word) THEN "gen" ELSE "exists"]
                  /\ dupOnly' = [dupOnly EXCEPT ![p] =
                              @ /\ ~Falsy(t.word) /\ word_exists(content, t.word)]
                  /\ UNCHANGED resolver
    /\ UNCHANGED <<persistent, op, chat_id, result, todo, recipients, outbox,
                   resolverCalls, content0, lastAct, everSubscribed>>
    /\ UNCHANGED generator

\* for _ in range(5): word, meaning, example = generate_word();
\* if not word: continue
Generate(p) ==
    /\ pc[p] = "gen"
    /\ attempt[p] < MaxAttempts
    /\ genCalls' = [genCalls EXCEPT ![p] = @ + 1]
    /\ \E resp \in Responses :
         IF generate_word_raises(resp)
         THEN /\ pc' = [pc EXCEPT ![p] = "raised"]
              /\ resolver' = [resolver EXCEPT ![p] = "raised"]
              /\ dupOnly' = [dupOnly EXCEPT ![p] = FALSE]
              /\ Leave(p)
         ELSE LET t == generate_word(resp)
              IN  /\ gen' = [gen EXCEPT ![p] = t]
                  /\ attempt' = [attempt EXCEPT ![p] = @ + 1]
                  /\ pc' = [pc EXCEPT ![p] =
                              IF Falsy(t.word) THEN "gen" ELSE "exists"]
                  /\ dupOnly' = [dupOnly EXCEPT ![p] =
                              @ /\ ~Falsy(t.word) /\ word_exists(content, t.word)]
                  /\ UNCHANGED resolver
    /\ UNCHANGED <<persistent, op, chat_id, result, todo, recipients, outbox,
                   resolverCalls, content0, lastAct, everSubscribed>>
    /\ UNCHANGED generator

\* range(5) is exhausted: return None, None, None
Exhausted(p) ==
    /\ pc[p] = "gen"
    /\ attempt[p] = MaxAttempts
    /\ result' = [result EXCEPT ![p] = NoneTriple]
    /\ resolver' = [resolver EXCEPT ![p] = "returned"]
    /\ pc' = [pc EXCEPT ![p] = "resolved"]
    /\ Leave(p)
    /\ UNCHANGED <<persistent, op, chat_id, todo, recipients, outbox, genCalls,
                   resolverCalls, dupOnly, content0, lastAct, everSubscribed>>
    /\ UNCHANGED generator

\* if not word_exists(word):
Exists(p) ==
    /\ pc[p] = "exists"
    /\ pc' = [pc EXCEPT ![p] =
                IF word_exists(content, gen[p].word) THEN "gen" ELSE "save"]
    /\ UNCHANGED <<persistent, op, chat_id, attempt, gen, result, todo, history>>
    /\ UNCHANGED generator

\* without the return after save_content: the loop goes on
Save_continue(p) ==
    /\ pc[p] = "save"
    /\ IF UniqueViolation(content, gen[p].word)
       THEN /\ pc' = [pc EXCEPT ![p] = "raised"]
            /\ resolver' = [resolver EXCEPT ![p] = "raised"]
            /\ Leave(p)
            /\ UNCHANGED <<content, result>>
       ELSE /\ content' = save_content(content, gen[p].word, gen[p].meaning,
                                       gen[p].example)
            /\ pc' = [pc EXCEPT ![p] = "gen"]
            /\ UNCHANGED <<result, resolver, attempt, gen>>
    /\ UNCHANGED <<users, op, chat_id, todo, recipients, outbox, genCalls,
                   resolverCalls, dupOnly, content0, lastAct, everSubscribed>>
    /\ UNCHANGED generator

\* save_content(word, meaning, example); return word, meaning, example
\* the INSERT raises UniqueViolation when the same text is stored already
Save(p) ==
    /\ pc[p] = "save"
    /\ IF UniqueViolation(content, gen[p].word)
       THEN /\ pc' = [pc EXCEPT ![p] = "raised"]
            /\ resolver' = [resolver EXCEPT ![p] = "raised"]
            /\ UNCHANGED <<content, result>>
       ELSE /\ content' = save_content(content, gen[p].word, gen[p].meaning,
                                       gen[p].example)
            /\ result' = [result EXCEPT ![p] = gen[p]]
            /\ resolver' = [resolver EXCEPT ![p] = "returned"]
            /\ pc' = [pc EXCEPT ![p] = "resolved"]
    /\ Leave(p)
    /\ UNCHANGED <<users, op, chat_id, todo, recipients, outbox, genCalls,
                   resolverCalls, dupOnly, content0, lastAct, everSubscribed>>
    /\ UNCHANGED generator

\* ---------------------------------------------------------- send_daily_word
\* without the `if not word: return`
DailyUsers_nocheck(p) ==
    /\ pc[p] = "resolved"
    /\ op[p] = "daily"
    /\ LET us == get_subscribed_users(users)
       IN  /\ todo' = [todo EXCEPT ![p] = us]
           /\ recipients' = [recipients EXCEPT ![p] = us]
           /\ pc' = [pc EXCEPT ![p] = IF us = <<>> THEN "done" ELSE "send"]
    /\ UNCHANGED <<persistent, op, chat_id, attempt, gen, result, outbox,
                   genCalls, resolverCalls, resolver, dupOnly, content0,
                   lastAct, everSubscribed>>
    /\ UNCHANGED generator

\* if not word: print, return; else users = get_subscribed_users()
DailyUsers(p) ==
    /\ pc[p] = "resolved"
    /\ op[p] = "daily"
    /\ IF Falsy(result[p].word)
       THEN /\ pc' = [pc EXCEPT ![p] = "done"]
            /\ UNCHANGED <<todo, recipients>>
       ELSE LET us == get_subscribed_users(users)
            IN  /\ todo' = [todo EXCEPT ![p] = us]
                /\ recipients' = [recipients EXCEPT ![p] = us]
                /\ pc' = [pc EXCEPT ![p] = IF us = <<>> THEN "done" ELSE "send"]
    /\ UNCHANGED <<persistent, op, chat_id, attempt, gen, result, outbox,
                   genCalls, resolverCalls, resolver, dupOnly, content0,
                   lastAct, everSubscribed>>
    /\ UNCHANGED generator

\* without the try/except: a failed send ends the loop
DailySend_abort(p) ==
    /\ pc[p] = "send"
    /\ todo[p] # <<>>
    /\ \E ok \in BOOLEAN :
         /\ Send(p, Head(todo[p]), daily_message(result[p]), ok)
         /\ todo' = [todo EXCEPT ![p] = IF ok THEN Tail(@) ELSE <<>>]
         /\ pc' = [pc EXCEPT ![p] =
                     IF ok /\ Tail(todo[p]) # <<>> THEN "send" ELSE "done"]
    /\ UNCHANGED <<persistent, op, chat_id, attempt, gen, result, recipients,
                   genCalls, resolverCalls, resolver, dupOnly, content0,
                   lastAct, everSubscribed>>
    /\ UNCHANGED generator

\* the except branch unsubscribes the chat the send failed for
DailySend_unsubscribe(p) ==
    /\ pc[p] = "send"
    /\ todo[p] # <<>>
    /\ \E ok \in BOOLEAN :
         /\ Send(p, Head(todo[p]), daily_message(result[p]), ok)
         /\ users' = IF ok THEN users ELSE unsubscribe_user(users, Head(todo[p]))
    /\ todo' = [todo EXCEPT ![p] = Tail(@)]
    /\ pc' = [pc EXCEPT ![p] = IF Tail(todo[p]) = <<>> THEN "done" ELSE "send"]
    /\ UNCHANGED <<content, op, chat_id, attempt, gen, result, recipients,
                   genCalls, resolverCalls, resolver, dupOnly, content0,
                   lastAct, everSubscribed>>
    /\ UNCHANGED generator

\* for chat_id in users: try: send_message(...) except Exception: print
DailySend(p) ==
    /\ pc[p] = "send"
    /\ todo[p] # <<>>
    /\ \E ok \in BOOLEAN : Send(p, Head(todo[p]), daily_message(result[p]), ok)
    /\ todo' = [todo EXCEPT ![p] = Tail(@)]
    /\ pc' = [pc EXCEPT ![p] = IF Tail(todo[p]) = <<>> THEN "done" ELSE "send"]
    /\ UNCHANGED <<persistent, op, chat_id, attempt, gen, result, recipients,
                   genCalls, resolverCalls, resolver, dupOnly, content0,
                   lastAct, everSubscribed>>
    /\ UNCHANGED generator

\* ---------------------------------------------------------- regenerate_word
\* the apology or the formatted word goes to the invoking chat; a send that
\* raises is not caught by the handler
IknowReply(p) ==
    /\ pc[p] = "resolved"
    /\ op[p] = "iknow"
    /\ \E ok \in BOOLEAN :
         /\ Send(p, chat_id[p],
                 IF Falsy(result[p].word) THEN Apology
                 ELSE new_word_message(result[p]), ok)
         /\ pc' = [pc EXCEPT ![p] = IF ok THEN "done" ELSE "raised"]
    /\ UNCHANGED <<persistent, op, chat_id, attempt, gen, result, todo,
                   recipients, genCalls, resolverCalls, resolver, dupOnly,
                   content0, lastAct, everSubscribed>>
    /\ UNCHANGED generator

\* ------------------------------------------------- subscribe / unsubscribe
SubscribeUser(p) ==
    /\ pc[p] = "subscribe_user"
    /\ users' = subscribe_user(users, chat_id[p])
    /\ lastAct' = [lastAct EXCEPT ![chat_id[p]] = "subscribe"]
    /\ everSubscribed' = everSubscribed \cup {chat_id[p]}
    /\ pc' = [pc EXCEPT ![p] = "reply"]
    /\ UNCHANGED <<content, op, chat_id, attempt, gen, result, todo,
                   recipients, outbox, genCalls, resolverCalls, resolver,
                   dupOnly, content0>>
    /\ UNCHANGED generator

UnsubscribeUser(p) ==
    /\ pc[p] = "unsubscribe_user"
    /\ users' = unsubscribe_user(users, chat_id[p])
    /\ lastAct' = [lastAct EXCEPT ![chat_id[p]] = "unsubscribe"]
    /\ pc' = [pc EXCEPT ![p] = "reply"]
    /\ UNCHANGED <<content, op, chat_id, attempt, gen, result, todo,
                   recipients, outbox, genCalls, resolverCalls, resolver,
                   dupOnly, content0, everSubscribed>>
    /\ UNCHANGED generator

\* the fixed confirmation of subscribe / unsubscribe
ConfirmReply(p) ==
    /\ pc[p] = "reply"
    /\ \E ok \in BOOLEAN :
         /\ Send(p, chat_id[p],
                 IF op[p] = "subscribe" THEN SubscribedText
                 ELSE UnsubscribedText, ok)
         /\ pc' = [pc EXCEPT ![p] = IF ok THEN "done" ELSE "raised"]
    /\ UNCHANGED <<persistent, op, chat_id, attempt, gen, result, todo,
                   recipients, genCalls, resolverCalls, resolver, dupOnly,
                   content0, lastAct, everSubscribed>>
    /\ UNCHANGED generator

\* the entry point returns or its exception reaches the framework
Return(p) ==
    /\ pc[p] \in {"done", "raised"}
    /\ pc' = [pc EXCEPT ![p] = "idle"]
    /\ op' = [op EXCEPT ![p] = "none"]
    /\ chat_id' = [chat_id EXCEPT ![p] = 0]
    /\ attempt' = [attempt EXCEPT ![p] = 0]
    /\ gen' = [gen EXCEPT ![p] = NoneTriple]
    /\ result' = [result EXCEPT ![p] = NoneTriple]
    /\ todo' = [todo EXCEPT ![p] = <<>>]
    /\ recipients' = [recipients EXCEPT ![p] = <<>>]
    /\ outbox' = [outbox EXCEPT ![p] = <<>>]
    /\ genCalls' = [genCalls EXCEPT ![p] = 0]
    /\ resolverCalls' = [resolverCalls EXCEPT ![p] = 0]
    /\ resolver' = [resolver EXCEPT ![p] = "none"]
    /\ dupOnly' = [dupOnly EXCEPT ![p] = TRUE]
    /\ content0' = [content0 EXCEPT ![p] = <<>>]
    /\ UNCHANGED <<persistent, lastAct, everSubscribed>>
    /\ UNCHANGED generator

\* ------------------------------------------------------------ specification
\* one invocation at a time: the scheduled run and the command handlers do
\* not interleave
Next ==
    \/ Quiescent /\ send_daily_word("scheduler")
    \/ \E id \in ChatIds : Quiescent /\ regenerate_word("bot", id)
    \/ \E id \in ChatIds : Quiescent /\ subscribe("bot", id)
    \/ \E id \in ChatIds : Quiescent /\ unsubscribe("bot", id)
    \/ \E p \in Procs : get_new_unique_word(p)
    \/ \E p \in Procs : Generate(p)
    \/ \E p \in Procs : Exhausted(p)
    \/ \E p \in Procs : Exists(p)
    \/ \E p \in Procs : Save(p)
    \/ \E p \in Procs : DailyUsers(p)
    \/ \E p \in Procs : DailySend(p)
    \/ \E p \in Procs : IknowReply(p)
    \/ \E p \in Procs : SubscribeUser(p)
    \/ \E p \in Procs : UnsubscribeUser(p)
    \/ \E p \in Procs : ConfirmReply(p)
    \/ \E p \in Procs : Return(p)

Spec == Init /\ [][Next]_vars

\* the calls of one invocation follow each other, and each call returns
ResolverStep(p) == Generate(p) \/ Exhausted(p) \/ Exists(p) \/ Save(p)

\* the runs that invoke the resolver, one at a time, on a registry without
\* subscribers: the resolver reads and writes the content store only
ResolverNext ==
    \/ Quiescent /\ send_daily_word("scheduler")
    \/ \E id \in ChatIds : Quiescent /\ regenerate_word("bot", id)
    \/ \E p \in Procs : get_new_unique_word(p)
    \/ \E p \in Procs : ResolverStep(p)
    \/ \E p \in Procs : DailyUsers(p)
    \/ \E p \in Procs : IknowReply(p)
    \/ \E p \in Procs : Return(p)

FairSpec ==
    Init /\ [][ResolverNext]_vars /\ \A p \in Procs : WF_vars(ResolverStep(p))

\* one scheduled run and one on-demand-word command in separate processes:
\* their store statements interleave
RaceNext ==
    \/ send_daily_word("scheduler")
    \/ \E id \in ChatIds : regenerate_word("bot", id)
    \/ \E p \in Procs : get_new_unique_word(p)
    \/ \E p \in Procs : ResolverStep(p)
    \/ \E p \in Procs : DailyUsers(p)
    \/ \E p \in Procs : IknowReply(p)

RaceSpec == Init /\ [][RaceNext]_vars

\* ------------------------------------------------- generate_word on its own
\* one call of generate_word on any response whose text has at most
\* MaxTextLen tokens
Tokens == {"Word: ", "Meaning: ", "Example: ", BlankLine, " ", "a"}

BoundedTexts == UNION {[1..k -> Tokens] : k \in 0..MaxTextLen}

ServiceResponses ==
    { [kind |-> "unreachable", status |-> 0, text |-> <<>>],
      [kind |-> "http", status |-> 500, text |-> <<>>],
      [kind |-> "badjson", status |-> 200, text |-> <<>>] }
    \cup { [kind |-> "http", status |-> 200, text |-> t] : t \in BoundedTexts }

GenInit ==
    /\ NothingRunning
    /\ response \in ServiceResponses
    /\ outcome = <<>>

CallGenerateWord ==
    /\ outcome = <<>>
    /\ outcome' = <<[raised |-> generate_word_raises(response),
                     value |-> IF generate_word_raises(response) THEN NoneTriple
                               ELSE generate_word(response)]>>
    /\ UNCHANGED <<persistent, locals, history, response>>

GenSpec == GenInit /\ [][CallGenerateWord]_vars

\* --------------------------------------------------------------- properties
InSeq(s, x) == \E i \in DOMAIN s : s[i] = x
Count(s, x) == Cardinality({i \in DOMAIN s : s[i] = x})
Sent(p) == [i \in DOMAIN outbox[p] |-> outbox[p][i].to]
Records(u, id) == {i \in DOMAIN u : u[i].chat_id = id}
Finished(p) == resolver[p] \in {"returned", "raised"}
Blanks(t) == Cardinality({i \in DOMAIN t : t[i] = BlankLine})
Returned == outcome # <<>> /\ ~outcome[1].raised

\* C1: with invocations that do not interleave, no two entries of the content
\* store have words that are equal under case-insensitive comparison.
C1_NoCaseInsensitiveDuplicate ==
    \A i, j \in DOMAIN content :
        i # j => Lower(content[i].word) # Lower(content[j].word)

\* the exists check has just rejected a word stored under another casing
C1_Witness ==
    \E p \in Procs :
        /\ pc[p] = "gen"
        /\ attempt[p] >= 1
        /\ ~Falsy(gen[p].word)
        /\ \E i \in DOMAIN content :
             /\ content[i].word # gen[p].word
             /\ Lower(content[i].word) = Lower(gen[p].word)

\* C2: one resolver invocation calls the generator at most 5 times and
\* finishes; when every generated word was already stored it finishes after
\* exactly 5 calls by returning (None, None, None).
C2_AtMostFiveCalls ==
    \A p \in Procs :
        /\ genCalls[p] <= 5
        /\ (Finished(p) /\ dupOnly[p]) =>
              /\ genCalls[p] = 5
              /\ resolver[p] = "returned"
              /\ result[p] = NoneTriple

\* C2: the bound on the generator calls holds always, and under fairness of
\* the resolver's steps every invocation that started returns or raises.
C2_BoundedAndTerminates ==
    /\ []C2_AtMostFiveCalls
    /\ \A p \in Procs : (resolver[p] = "running") ~> Finished(p)

\* five duplicates in a row, then the failure result
C2_Witness ==
    \E p \in Procs :
        /\ resolver[p] = "returned"
        /\ dupOnly[p]
        /\ genCalls[p] = 5
        /\ result[p] = NoneTriple

\* C3: a resolver invocation that returns a triple has added exactly that one
\* entry to the content store; one that returns (None, None, None) has left
\* the content store as it was.
C3_OneEntryOnSuccess ==
    \A p \in Procs :
        resolver[p] = "returned" =>
            IF result[p] = NoneTriple
            THEN content = content0[p]
            ELSE /\ ~Falsy(result[p].word)
                 /\ content = Append(content0[p], result[p])

\* success on a later attempt, into a store that was not empty
C3_Witness ==
    \E p \in Procs :
        /\ resolver[p] = "returned"
        /\ result[p] # NoneTriple
        /\ genCalls[p] >= 2
        /\ content0[p] # <<>>

\* C4: there is at most one record per identity, and unsubscribe(id) right
\* after subscribe(id) leaves exactly one record of id, with subscribed false.
C4_AtMostOneRecord ==
    \A id \in ChatIds : Cardinality(Records(users, id)) <= 1

C4_SubscribeThenUnsubscribe ==
    \A p \in Procs :
        (/\ pc[p] = "unsubscribe_user"
         /\ pc'[p] = "reply"
         /\ lastAct[chat_id[p]] = "subscribe")
        => /\ Cardinality(Records(users', chat_id[p])) = 1
           /\ \A i \in Records(users', chat_id[p]) : users'[i].subscribed = FALSE

\* C4: both parts, the invariant and the step of unsubscribe_user.
C4_OneRecordPerIdentity ==
    []C4_AtMostOneRecord /\ [][C4_SubscribeThenUnsubscribe]_vars

\* unsubscribe has followed subscribe for an identity, others are registered
C4_Witness ==
    \E p \in Procs :
        /\ pc[p] = "reply"
        /\ op[p] = "unsubscribe"
        /\ chat_id[p] \in everSubscribed
        /\ Len(users) >= 2

\* C5: list_subscribed() never includes an identity whose latest
\* subscribe/unsubscribe operation was unsubscribe.
C5_UnsubscribedNotListed ==
    \A id \in ChatIds :
        lastAct[id] = "unsubscribe" => ~InSeq(get_subscribed_users(users), id)

\* an identity that had subscribed is unsubscribed, another one is listed
C5_Witness ==
    \E id \in ChatIds :
        /\ lastAct[id] = "unsubscribe"
        /\ id \in everSubscribed
        /\ get_subscribed_users(users) # <<>>

\* C6: right after subscribe(id) the identity is listed as subscribed,
\* whatever its record was before, and a second subscribe changes nothing.
C6_SubscribeStep ==
    \A p \in Procs :
        (pc[p] = "subscribe_user" /\ pc'[p] = "reply")
        => /\ InSeq(get_subscribed_users(users'), chat_id[p])
           /\ subscribe_user(users', chat_id[p]) = users'

\* C6: every step of subscribe_user satisfies it.
C6_SubscribeSetsTrue == [][C6_SubscribeStep]_vars

\* subscribe has acted on an identity whose record existed before
C6_Witness ==
    \E p \in Procs :
        /\ pc[p] = "reply"
        /\ op[p] = "subscribe"
        /\ Len(users) >= 2
        /\ users[1].chat_id = chat_id[p]

\* C7: unsubscribe(id) for an identity that never subscribed raises nothing
\* and leaves the registry unchanged; such an identity has no record and is
\* not listed.
C7_NeverSubscribedAbsent ==
    \A id \in ChatIds \ everSubscribed :
        /\ ~HasUser(users, id)
        /\ ~InSeq(get_subscribed_users(users), id)

C7_UnsubscribeStep ==
    \A p \in Procs :
        (/\ pc[p] = "unsubscribe_user"
         /\ pc'[p] # pc[p]
         /\ chat_id[p] \notin everSubscribed)
        => /\ users' = users
           /\ pc'[p] = "reply"

\* C7: both parts, the invariant and the step of unsubscribe_user.
C7_UnsubscribeUnknownIsNoOp ==
    []C7_NeverSubscribedAbsent /\ [][C7_UnsubscribeStep]_vars

\* unsubscribe has acted for an unknown identity on a registry with records
C7_Witness ==
    \E p \in Procs :
        /\ pc[p] = "reply"
        /\ op[p] = "unsubscribe"
        /\ chat_id[p] \notin everSubscribed
        /\ users # <<>>

\* C8: a broadcast attempts one send to each identity of the list it read
\* and to nobody else, whichever sends fail: the sends made and the sends
\* still to make are always the list, and a finished broadcast has made one
\* send per listed identity.
C8_EachRecipientOnce ==
    \A p \in Procs :
        op[p] = "daily" =>
            /\ Sent(p) \o todo[p] = recipients[p]
            /\ (pc[p] = "done" /\ ~Falsy(result[p].word)) =>
                 /\ Len(outbox[p]) = Len(recipients[p])
                 /\ \A id \in ChatIds :
                      Count(Sent(p), id) = Count(recipients[p], id)
                 /\ \A id \in ChatIds :
                      Count(Sent(p), id) =
                        IF InSeq(get_subscribed_users(users), id) THEN 1 ELSE 0

\* a finished broadcast whose first send failed and whose second was made
C8_Witness ==
    \E p \in Procs :
        /\ op[p] = "daily"
        /\ pc[p] = "done"
        /\ Len(outbox[p]) >= 2
        /\ outbox[p][1].ok = FALSE

\* C9: a scheduled run calls the resolver once and sends only after it
\* returned a word: every send carries the entry persisted by this run, and a
\* run whose resolver gave no word sends nothing.
C9_ResolveOnceThenSend ==
    \A p \in Procs :
        op[p] = "daily" =>
            /\ resolverCalls[p] <= 1
            /\ pc[p] = "done" => resolverCalls[p] = 1
            /\ (resolver[p] # "returned" \/ Falsy(result[p].word))
                  => outbox[p] = <<>>
            /\ outbox[p] # <<>> =>
                 /\ content = Append(content0[p], result[p])
                 /\ \A i \in DOMAIN outbox[p] :
                      outbox[p][i].text = daily_message(result[p])

\* a finished run that sent the word it added to a store that was not empty
C9_Witness ==
    \E p \in Procs :
        /\ op[p] = "daily"
        /\ pc[p] = "done"
        /\ outbox[p] # <<>>
        /\ content0[p] # <<>>

\* C10: every subscribe, unsubscribe or on-demand-word command that has
\* finished has sent a reply to the invoking identity.
C10_CommandAlwaysReplied ==
    \A p \in Procs :
        (op[p] \in {"iknow", "subscribe", "unsubscribe"}
           /\ pc[p] \in {"done", "raised"})
        => \E i \in DOMAIN outbox[p] : outbox[p][i].to = chat_id[p]

\* C11: an on-demand-word command that has finished has sent exactly one
\* message, to the invoking identity: the formatted word when the resolver
\* gave one, the apology otherwise.
C11_OneReplyToInvoker ==
    \A p \in Procs :
        (op[p] = "iknow" /\ pc[p] \in {"done", "raised"}) =>
            /\ Len(outbox[p]) = 1
            /\ outbox[p][1].to = chat_id[p]
            /\ outbox[p][1].text =
                 IF Falsy(result[p].word) THEN Apology
                 ELSE new_word_message(result[p])

\* C12: no generation failure leaves the resolver as an exception: an
\* invocation ends by returning.
C12_FailureRecoveredLocally ==
    \A p \in Procs : resolver[p] # "raised"

\* C13: a 200 response whose text has fewer than three parts between blank
\* lines (fewer than two separators) gives (None, None, None), and no result
\* of generate_word has a word without a meaning and an example.
C13_NoPartialTriple ==
    Returned =>
        /\ (response.status = 200 /\ Blanks(response.text) < 2)
              => outcome[1].value = NoneTriple
        /\ outcome[1].value.word # None
              => /\ outcome[1].value.meaning # None
                 /\ outcome[1].value.example # None

\* the third paragraph is missing: generate_word has returned the failure
C13_Witness ==
    /\ Returned
    /\ response.status = 200
    /\ Blanks(response.text) = 1
    /\ Len(response.text) >= 3
    /\ response.text[1] = "Word: "
    /\ response.text[2] = "a"
    /\ outcome[1].value = NoneTriple

\* C16: with interleaved invocations a save can follow an exists check that
\* is no longer true: it raises, uncaught, when the same text is stored, and
\* otherwise adds a second entry equal to a stored one but for case.
C16_Step ==
    \A p \in Procs :
        (/\ pc[p] = "save"
         /\ pc'[p] # "save"
         /\ \E i \in DOMAIN content :
              Lower(content[i].word) = Lower(gen[p].word))
        => IF \E i \in DOMAIN content : content[i].word = gen[p].word
           THEN /\ pc'[p] = "raised"
                /\ resolver'[p] = "raised"
                /\ content' = content
           ELSE /\ content' = Append(content, gen[p])
                /\ resolver'[p] = "returned"
                /\ \E i, j \in DOMAIN content' :
                     /\ i # j
                     /\ Lower(content'[i].word) = Lower(content'[j].word)

C16_CheckThenActRace == [][C16_Step]_vars

\* both invocations passed the exists check and both saved: two entries
\* that differ in case only
C16_Witness ==
    /\ \A p \in Procs : resolver[p] = "returned" /\ result[p] # NoneTriple
    /\ \E i, j \in DOMAIN content :
         /\ i # j
         /\ Lower(content[i].word) = Lower(content[j].word)

\* C17: generate_word returns a triple only when the text, stripped, has
\* exactly three parts between blank lines.
C17_ExactlyThreeParts ==
    (Returned /\ outcome[1].value # NoneTriple)
        => Blanks(Strip(response.text)) = 2

\* C14: a save of a word that is stored already, under any casing, raises
\* the uniqueness violation and leaves the store as it was.
C14_Step ==
    \A p \in Procs :
        (/\ pc[p] = "save"
         /\ pc'[p] # "save"
         /\ \E i \in DOMAIN content :
              Lower(content[i].word) = Lower(gen[p].word))
        => /\ pc'[p] = "raised"
           /\ content' = content

C14_SaveRejectsAnyCasing == [][C14_Step]_vars

\* C15: the attempts of an invocation follow each other, one generator call
\* each; a failed generation goes to the next attempt without an exists check
\* or a save; the first generated word that is absent from the store is saved
\* and returned, and nothing is generated, checked or saved after it.
C15_FirstAbsentWord ==
    \A p \in Procs :
        /\ resolver[p] = "running" => genCalls[p] = attempt[p]
        /\ (resolver[p] = "returned" /\ result[p] # NoneTriple) =>
              /\ content = Append(content0[p], result[p])
              /\ \A i \in DOMAIN content0[p] :
                   Lower(content0[p][i].word) # Lower(result[p].word)
        /\ (resolver[p] = "returned" /\ result[p] = NoneTriple) =>
              genCalls[p] = 5

C15_Step ==
    \A p \in Procs :
        /\ (pc[p] = "gen" /\ genCalls'[p] = genCalls[p] + 1) =>
              /\ content' = content
              /\ resolver'[p] = "running" =>
                   /\ attempt'[p] = attempt[p] + 1
                   /\ pc'[p] = IF Falsy(gen'[p].word) THEN "gen" ELSE "exists"
        /\ (pc[p] = "exists" /\ pc'[p] # "exists") =>
              /\ content' = content
              /\ gen'[p] = gen[p]
              /\ pc'[p] = IF \E i \in DOMAIN content :
                                Lower(content[i].word) = Lower(gen[p].word)
                          THEN "gen" ELSE "save"
        /\ (pc[p] = "save" /\ pc'[p] # "save") =>
              /\ content' = Append(content, gen[p])
              /\ result'[p] = gen[p]
              /\ resolver'[p] = "returned"
        /\ Finished(p) =>
              /\ content' = content
              /\ genCalls'[p] = genCalls[p] \/ resolver'[p] = "none"

C15_ShortCircuit == []C15_FirstAbsentWord /\ [][C15_Step]_vars

\* a failed generation, a stored word and then an absent word: returned
\* after three of the five attempts
C15_Witness ==
    \E p \in Procs :
        /\ resolver[p] = "returned"
        /\ result[p] # NoneTriple
        /\ genCalls[p] = 3
        /\ Len(content0[p]) = 1

\* C18: no step changes or removes a stored entry, and no step removes the
\* record of an identity.
C18_Step ==
    /\ \A i \in DOMAIN content :
         i \in DOMAIN content' /\ content'[i] = content[i]
    /\ \A id \in ChatIds : HasUser(users, id) => HasUser(users', id)

C18_PersistentStateGrows == [][C18_Step]_vars

\* entries and an unsubscribed record that have outlived later operations
C18_Witness ==
    /\ Len(content) >= 2
    /\ Len(users) >= 2
    /\ \E i \in DOMAIN users : ~users[i].subscribed
    /\ \E p \in Procs : pc[p] = "done" /\ op[p] = "daily"

\* C19: a step of subscribe or unsubscribe leaves the content store and the
\* records of the other identities as they are; a step of the scheduled run
\* or of the on-demand-word command leaves the registry as it is.
C19_Step ==
    \A p \in Procs :
        pc'[p] # pc[p] =>
            /\ op[p] \in {"subscribe", "unsubscribe"} =>
                 /\ content' = content
                 /\ \A i \in DOMAIN users :
                      users[i].chat_id # chat_id[p] =>
                          i \in DOMAIN users' /\ users'[i] = users[i]
                 /\ \A i \in DOMAIN users' :
                      users'[i].chat_id # chat_id[p] => i \in DOMAIN users
            /\ op[p] \in {"daily", "iknow"} => users' = users
            /\ op[p] = "none" => users' = users /\ content' = content

C19_OwnTableOnly == [][C19_Step]_vars

\* a broadcast has finished with a failed send and the identity it failed
\* for is still subscribed
C19_Witness ==
    \E p \in Procs :
        /\ op[p] = "daily"
        /\ pc[p] = "done"
        /\ \E i \in DOMAIN outbox[p] :
             /\ ~outbox[p][i].ok
             /\ InSeq(get_subscribed_users(users), outbox[p][i].to)

\* C20: a generated triple whose word is empty is skipped like a failed
\* generation, without an exists check or a save, and no stored entry has an
\* empty word.
C20_NoEmptyWordStored ==
    \A i \in DOMAIN content : content[i].word # <<>> /\ content[i].word # None

C20_Step ==
    \A p \in Procs :
        (/\ pc[p] = "gen"
         /\ genCalls'[p] = genCalls[p] + 1
         /\ resolver'[p] = "running"
         /\ gen'[p].word = <<>>)
        => /\ pc'[p] = "gen"
           /\ attempt'[p] = attempt[p] + 1
           /\ content' = content

C20_EmptyWordSkipped == []C20_NoEmptyWordStored /\ [][C20_Step]_vars

\* the paragraph of the word held only its label: the attempt was skipped
C20_Witness ==
    \E p \in Procs :
        /\ pc[p] = "gen"
        /\ attempt[p] >= 1
        /\ gen[p].word = <<>>
        /\ gen[p].meaning # None

=============================================================================
